---- MODULE Spec2Model ----
(***************************************************************************)
(* Model of gamepigeon-scoring.py: the line scanner                        *)
(* parse_gamepigeon_results, the sliding-window computation of             *)
(* plot_results_over_time and the control flow of main.                    *)
(*                                                                         *)
(* Text is modelled as sequences of one-character strings, so that         *)
(* str.strip, re.match and datetime.strptime are computed on characters.   *)
(* Optional values (None) are modelled as sequences of length 0 or 1.      *)
(***************************************************************************)
EXTENDS Integers, Sequences, FiniteSets, TLC

\* ------------------------------------------------------------------------
\* Bounds of the model
\* ------------------------------------------------------------------------

\* longest transcript (number of lines) drawn from the general line pool
MaxLines == 4

\* longest transcript drawn from the small pool of timestamped game blocks
MaxBlockLines == 6

\* longest timestamped-outcome sequence handed to plot_results_over_time
MaxOutcomes == 6

\* ------------------------------------------------------------------------
\* Optional values
\* ------------------------------------------------------------------------

None == <<>>

Some(x) == <<x>>

IsNone(o) == Len(o) = 0

Get(o) == o[1]

\* ------------------------------------------------------------------------
\* Characters
\* ------------------------------------------------------------------------

DigitChars == <<"0", "1", "2", "3", "4", "5", "6", "7", "8", "9">>

UpperChars ==
    <<"A", "B", "C", "D", "E", "F", "G", "H", "I", "J", "K", "L", "M",
      "N", "O", "P", "Q", "R", "S", "T", "U", "V", "W", "X", "Y", "Z">>

LowerChars ==
    <<"a", "b", "c", "d", "e", "f", "g", "h", "i", "j", "k", "l", "m",
      "n", "o", "p", "q", "r", "s", "t", "u", "v", "w", "x", "y", "z">>

Range(s) == {s[k] : k \in 1..Len(s)}

\* \s of the re module, and the characters str.strip() removes
IsSpace(c) == c \in {" ", "\t", "\n", "\r"}

\* \d of the re module
IsDigit(c) == c \in Range(DigitChars)

\* \w of the re module
IsWord(c) == c \in Range(DigitChars) \cup Range(UpperChars) \cup Range(LowerChars) \cup {"_"}

DigitVal(c) == (CHOOSE k \in 1..10 : DigitChars[k] = c) - 1

\* str.lower() on one character (strptime matches names case-insensitively)
Lower(c) ==
    IF c \in Range(UpperChars)
    THEN LowerChars[CHOOSE k \in 1..26 : UpperChars[k] = c]
    ELSE c

LowerStr(s) == [k \in 1..Len(s) |-> Lower(s[k])]

\* int() of a string of decimal digits
RECURSIVE Number(_)
Number(s) ==
    IF Len(s) = 0 THEN 0
    ELSE 10 * Number(SubSeq(s, 1, Len(s) - 1)) + DigitVal(s[Len(s)])

AllDigits(s, a, b) == \A k \in a..b : IsDigit(s[k])

\* str.strip(): drop leading and trailing whitespace
Strip(s) ==
    LET keep == {k \in 1..Len(s) : ~IsSpace(s[k])}
    IN  IF keep = {} THEN <<>>
        ELSE LET first == CHOOSE k \in keep : \A m \in keep : k <= m
                 last  == CHOOSE k \in keep : \A m \in keep : k >= m
             IN  SubSeq(s, first, last)

\* ------------------------------------------------------------------------
\* The literals the scanner compares lines with
\* ------------------------------------------------------------------------

GamePigeonMarker ==
    <<"G", "a", "m", "e", "P", "i", "g", "e", "o", "n", " ", "m", "e", "s", "s", "a", "g", "e", ":">>

IWonMarker ==
    <<"I", " ", "w", "o", "n", "!">>

YouWonMarker ==
    <<"Y", "o", "u", " ", "W", "o", "n", "!">>

DrawMarker ==
    <<"D", "r", "a", "w", "!">>

MeSender ==
    <<"M", "e">>

\* ------------------------------------------------------------------------
\* The timestamp pattern (re.match: anchored at the start only)
\* ------------------------------------------------------------------------

\* s fits  (\w{3}\s\d{1,2},\s\d{4}) sep (\d{1,2}:\d{2}:\d{2}\s[AP]M)  from its
\* first character, with d day digits, w separating whitespace characters
\* and h hour digits; the match ends at character TsEnd(d, w, h)
TsEnd(d, w, h) == 19 + d + w + h

TsFits(s, d, w, h) ==
    LET t == 11 + d + w
    IN  /\ TsEnd(d, w, h) <= Len(s)
        /\ \A k \in 1..3 : IsWord(s[k])
        /\ IsSpace(s[4])
        /\ AllDigits(s, 5, 4 + d)
        /\ s[5 + d] = ","
        /\ IsSpace(s[6 + d])
        /\ AllDigits(s, 7 + d, 10 + d)
        /\ \A k \in (11 + d)..(10 + d + w) : IsSpace(s[k])
        /\ AllDigits(s, t, t + h - 1)
        /\ s[t + h] = ":"
        /\ AllDigits(s, t + h + 1, t + h + 2)
        /\ s[t + h + 3] = ":"
        /\ AllDigits(s, t + h + 4, t + h + 5)
        /\ IsSpace(s[t + h + 6])
        /\ s[t + h + 7] \in {"A", "P"}
        /\ s[t + h + 8] = "M"

\* the match object of re.match with the separator repeated a number of
\* times in seps: None, or the pair <<group(1), group(2)>>
ReMatch(s, seps) ==
    LET fits == {x \in {1, 2} \X seps \X {1, 2} : TsFits(s, x[1], x[2], x[3])}
    IN  IF fits = {} THEN None
        ELSE LET x == CHOOSE y \in fits : TRUE
                 t == 11 + x[1] + x[2]
             IN  Some(<<SubSeq(s, 1, 10 + x[1]), SubSeq(s, t, TsEnd(x[1], x[2], x[3]))>>)

\* the pattern as a whole-line match with one or two separating characters
timestamp_match_strict(line) ==
    LET whole == {x \in {1, 2} \X {1, 2} \X {1, 2} :
                     TsFits(line, x[1], x[2], x[3]) /\ TsEnd(x[1], x[2], x[3]) = Len(line)}
    IN  IF whole = {} THEN None ELSE ReMatch(line, {1, 2})

\* lines 44-46: the \s+ pattern first, the \s\s pattern when it fails
timestamp_match(line) ==
    LET first == ReMatch(line, 1..Len(line))
    IN  IF ~IsNone(first) THEN first ELSE ReMatch(line, {2})

\* ------------------------------------------------------------------------
\* datetime.strptime
\* ------------------------------------------------------------------------

MonthNames ==
    << <<"j", "a", "n">>, <<"f", "e", "b">>, <<"m", "a", "r">>, <<"a", "p", "r">>,
       <<"m", "a", "y">>, <<"j", "u", "n">>, <<"j", "u", "l">>, <<"a", "u", "g">>,
       <<"s", "e", "p">>, <<"o", "c", "t">>, <<"n", "o", "v">>, <<"d", "e", "c">> >>

WeekdayNames ==
    << <<"m", "o", "n">>, <<"t", "u", "e">>, <<"w", "e", "d">>, <<"t", "h", "u">>,
       <<"f", "r", "i">>, <<"s", "a", "t">>, <<"s", "u", "n">> >>

IsLeap(y) == y % 4 = 0 /\ (y % 100 # 0 \/ y % 400 = 0)

DaysInMonth(y, m) ==
    IF m = 2 THEN (IF IsLeap(y) THEN 29 ELSE 28)
    ELSE IF m \in {4, 6, 9, 11} THEN 30 ELSE 31

\* %I with %p: 12 AM is hour 0, 12 PM is hour 12, other PM hours gain 12
Hour24(hour, ampm) ==
    IF ampm = "A" THEN (IF hour = 12 THEN 0 ELSE hour)
    ELSE (IF hour = 12 THEN 12 ELSE hour + 12)

\* datetime.strptime(s, "%b %d, %Y %I:%M:%S %p") for fmt = "b" and
\* datetime.strptime(s, "%a %d, %Y %I:%M:%S %p") for fmt = "a":
\* None models ValueError, otherwise the date-time
\* <<year, month, day, hour, minute, second>>
strptime(s, fmt) ==
    LET shapes == {x \in {1, 2} \X {1, 2} :
                      TsFits(s, x[1], 1, x[2]) /\ TsEnd(x[1], 1, x[2]) = Len(s)}
    IN  IF shapes = {} THEN None
        ELSE
        LET x      == CHOOSE y \in shapes : TRUE
            d      == x[1]
            h      == x[2]
            t      == 12 + d
            name   == LowerStr(SubSeq(s, 1, 3))
            names  == IF fmt = "b" THEN MonthNames ELSE WeekdayNames
            day    == Number(SubSeq(s, 5, 4 + d))
            year   == Number(SubSeq(s, 7 + d, 10 + d))
            hour   == Number(SubSeq(s, t, t + h - 1))
            minute == Number(SubSeq(s, t + h + 1, t + h + 2))
            second == Number(SubSeq(s, t + h + 4, t + h + 5))
            ampm   == s[t + h + 7]
        IN  IF \/ name \notin Range(names)
               \/ day \notin 1..31
               \/ hour \notin 1..12
               \/ minute \notin 0..59
               \/ second \notin 0..61
            THEN None    \* time data does not match format
            ELSE
            LET month == IF fmt = "b"
                         THEN CHOOSE k \in 1..12 : MonthNames[k] = name
                         ELSE 1
            IN  IF year < 1 \/ day > DaysInMonth(year, month) \/ second > 59
                THEN None    \* the datetime constructor rejects the fields
                ELSE Some(<<year, month, day, Hour24(hour, ampm), minute, second>>)

\* lines 50-60: both formats are tried on "<group 1> <group 2>"
parse_timestamp(groups) ==
    LET timestamp_str == groups[1] \o <<" ">> \o groups[2]
        month_first   == strptime(timestamp_str, "b")
    IN  IF ~IsNone(month_first) THEN month_first
        ELSE strptime(timestamp_str, "a")

\* order of datetime values
RECURSIVE LexLess(_, _)
LexLess(a, b) ==
    IF Len(a) = 0 \/ Len(b) = 0 THEN FALSE
    ELSE IF a[1] # b[1] THEN a[1] < b[1]
    ELSE LexLess(Tail(a), Tail(b))

\* ------------------------------------------------------------------------
\* The transcripts that are scanned: raw lines as file.readlines() returns
\* them
\* ------------------------------------------------------------------------

L_GamePigeon ==
    <<"G", "a", "m", "e", "P", "i", "g", "e", "o", "n", " ", "m", "e", "s", "s", "a", "g", "e", ":", "\n">>

L_IWon ==
    <<"I", " ", "w", "o", "n", "!", "\n">>

L_YouWon ==
    <<"Y", "o", "u", " ", "W", "o", "n", "!", "\n">>

L_Draw ==
    <<"D", "r", "a", "w", "!">>

L_Me ==
    <<" ", "M", "e", "\n">>

L_Alex ==
    <<"A", "l", "e", "x", "\n">>

L_TsMidnight ==
    <<"J", "a", "n", " ", "2", ",", " ", "2", "0", "2", "4", " ", "1", "2", ":", "0", "5", ":", "0", "0", " ", "A", "M", "\n">>

L_TsTwoSpaces ==
    <<"J", "a", "n", " ", "2", ",", " ", "2", "0", "2", "4", " ", " ", "1", ":", "0", "5", ":", "0", "0", " ", "A", "M", "\n">>

L_TsThreeSpaces ==
    <<"D", "e", "c", " ", "3", "1", ",", " ", "2", "0", "2", "3", " ", " ", " ", "1", "1", ":", "5", "9", ":", "5", "9", " ", "P", "M", "\n">>

L_TsTrailing ==
    <<"J", "a", "n", " ", "2", ",", " ", "2", "0", "2", "4", " ", "1", ":", "0", "5", ":", "0", "0", " ", "P", "M", " ", "(", "R", "e", "a", "d", ")", "\n">>

L_TsBadDay ==
    <<"F", "e", "b", " ", "3", "0", ",", " ", "2", "0", "2", "4", " ", "1", ":", "0", "0", ":", "0", "0", " ", "P", "M", "\n">>

L_TsWeekday ==
    <<"M", "o", "n", " ", "5", ",", " ", "2", "0", "2", "3", " ", " ", "1", "0", ":", "0", "0", ":", "0", "0", " ", "A", "M", "\n">>

L_NoSeconds ==
    <<"J", "a", "n", " ", "2", ",", " ", "2", "0", "2", "4", " ", "1", "0", ":", "0", "0", " ", "A", "M", "\n">>

Pool ==
    <<L_GamePigeon, L_IWon, L_YouWon, L_Draw, L_Me, L_Alex, L_TsMidnight,
      L_TsTwoSpaces, L_TsThreeSpaces, L_TsTrailing, L_TsBadDay, L_TsWeekday,
      L_NoSeconds>>

\* transcripts of any lines but the two plain timestamps
GeneralPool == {1, 2, 3, 4, 5, 6, 9, 10, 11, 12, 13}

\* transcripts of game blocks under two timestamps listed in either order
BlockPool == {1, 2, 4, 7, 8}

SeqsOver(S, n) == UNION {[1..k -> S] : k \in 0..n}

Transcripts == SeqsOver(GeneralPool, MaxLines) \cup SeqsOver(BlockPool, MaxBlockLines)

\* a file that opens and decodes, a path that does not exist, and a file
\* whose bytes are not UTF-8
Files ==
    {[status |-> "ok", content |-> c] : c \in Transcripts}
        \cup {[status |-> s, content |-> <<>>] : s \in {"missing", "unreadable"}}

\* line.strip(), the match object and the parsed timestamp of each pool line
StrippedLine == [k \in 1..Len(Pool) |-> Strip(Pool[k])]

MatchOf == [k \in 1..Len(Pool) |-> timestamp_match(StrippedLine[k])]

ParsedOf ==
    [k \in 1..Len(Pool) |->
        IF IsNone(MatchOf[k]) THEN None ELSE parse_timestamp(Get(MatchOf[k]))]

\* ------------------------------------------------------------------------
\* State
\* ------------------------------------------------------------------------

VARIABLES
    pc,                 \* position in main / parse_gamepigeon_results
    file,               \* the file named on the command line
    lines,              \* file.readlines(), as indices into Pool
    i,                  \* index of the line the loop is at (from 0)
    current_sender,     \* None or Some(text)
    current_timestamp,  \* None or Some(date-time)
    gamepigeon_flag,
    results,            \* the dictionary built by the parser
    ret,                \* what parse_gamepigeon_results returned to main
    out,                \* messages printed so far
    plot                \* what plot_results_over_time computed

vars ==
    <<pc, file, lines, i, current_sender, current_timestamp, gamepigeon_flag,
      results, ret, out, plot>>

\* a printed message
Msg(tag) == [msg |-> tag, data |-> <<>>]

\* lines 25-30
EmptyResults == [wins |-> 0, losses |-> 0, draws |-> 0, timestamped_results |-> <<>>]

NoPlot ==
    [called |-> FALSE, cum_wins |-> <<>>, cum_losses |-> <<>>, cum_draws |-> <<>>,
     window_size |-> 0, win_percentages |-> <<>>, dates |-> <<>>,
     placeholder |-> FALSE, saved |-> FALSE]

Init ==
    /\ pc = "main"
    /\ file \in Files
    /\ lines = <<>>
    /\ i = 0
    /\ current_sender = None
    /\ current_timestamp = None
    /\ gamepigeon_flag = FALSE
    /\ results = EmptyResults
    /\ ret = None
    /\ out = <<>>
    /\ plot = NoPlot

\* ------------------------------------------------------------------------
\* parse_gamepigeon_results
\* ------------------------------------------------------------------------

\* the timestamp block leaving the flag as it is
TimestampBlockKeepsFlag(st, line_id, next) ==
    LET timestamp_match_ == MatchOf[line_id]
    IN  IF ~IsNone(timestamp_match_) /\ ~IsNone(next)
        THEN [sender    |-> Some(StrippedLine[Get(next)]),
              timestamp |-> ParsedOf[line_id],
              flag      |-> st.flag]
        ELSE st

\* the timestamp block entered on the last line too, where only the sender
\* is left as it is
TimestampBlockOnLastLine(st, line_id, next) ==
    LET timestamp_match_ == MatchOf[line_id]
    IN  IF ~IsNone(timestamp_match_)
        THEN [sender    |-> IF IsNone(next) THEN st.sender
                            ELSE Some(StrippedLine[Get(next)]),
              timestamp |-> ParsedOf[line_id],
              flag      |-> FALSE]
        ELSE st

\* lines 48-64: the timestamp block, on the scan state
\* st = [sender, timestamp, flag]; next is None on the last line
TimestampBlock(st, line_id, next) ==
    LET timestamp_match_ == MatchOf[line_id]
    IN  IF ~IsNone(timestamp_match_) /\ ~IsNone(next)
        THEN [sender    |-> Some(StrippedLine[Get(next)]),
              timestamp |-> ParsedOf[line_id],
              flag      |-> FALSE]
        ELSE st

\* the outcome of "You Won!" not depending on the sender
OutcomeNotInverted(line, sender) ==
    IF line = IWonMarker
    THEN (IF sender = Some(MeSender) THEN Some("win") ELSE Some("loss"))
    ELSE IF line = YouWonMarker THEN Some("loss")
    ELSE IF line = DrawMarker THEN Some("draw")
    ELSE None

\* lines 73-97: the outcome a result marker records for a sender, None for a
\* line that is not a result marker
Outcome(line, sender) ==
    IF line = IWonMarker
    THEN (IF sender = Some(MeSender) THEN Some("win") ELSE Some("loss"))
    ELSE IF line = YouWonMarker
    THEN (IF sender = Some(MeSender) THEN Some("loss") ELSE Some("win"))
    ELSE IF line = DrawMarker THEN Some("draw")
    ELSE None

\* counting inside the timestamp test as well as outside it
RecordCountsTwice(res, outcome, timestamp) ==
    LET field   == IF outcome = "win" THEN "wins"
                   ELSE IF outcome = "loss" THEN "losses" ELSE "draws"
        counted == [res EXCEPT ![field] = @ + 1]
    IN  IF ~IsNone(timestamp)
        THEN [counted EXCEPT ![field] = @ + 1,
                             !.timestamped_results = Append(@, <<Get(timestamp), outcome>>)]
        ELSE counted

\* counting only inside the timestamp test
RecordOnlyTimestamped(res, outcome, timestamp) ==
    LET field == IF outcome = "win" THEN "wins"
                 ELSE IF outcome = "loss" THEN "losses" ELSE "draws"
    IN  IF ~IsNone(timestamp)
        THEN [res EXCEPT ![field] = @ + 1,
                         !.timestamped_results = Append(@, <<Get(timestamp), outcome>>)]
        ELSE res

\* lines 75-96: count an outcome, and append it when a timestamp is present
Record(res, outcome, timestamp) ==
    LET counted ==
            IF outcome = "win" THEN [res EXCEPT !.wins = @ + 1]
            ELSE IF outcome = "loss" THEN [res EXCEPT !.losses = @ + 1]
            ELSE [res EXCEPT !.draws = @ + 1]
    IN  IF ~IsNone(timestamp)
        THEN [counted EXCEPT !.timestamped_results = Append(@, <<Get(timestamp), outcome>>)]
        ELSE counted

\* the test of line 72 without the flag
AwaitingResultAnyLine(flag, idx) == idx > 0

\* line 72: is the line looked at as a possible result
AwaitingResult(flag, idx) == flag /\ idx > 0

\* the sequence left in transcript order
SortByTimestampSkipped(s) == s

\* line 107: list.sort(key=lambda x: x[0]), a stable sort
RECURSIVE SortByTimestamp(_)
SortByTimestamp(s) ==
    IF Len(s) <= 1 THEN s
    ELSE LET sorted == SortByTimestamp(SubSeq(s, 1, Len(s) - 1))
             e      == s[Len(s)]
             before == {k \in 1..Len(sorted) : ~LexLess(e[1], sorted[k][1])}
             n      == Cardinality(before)
         IN  SubSeq(sorted, 1, n) \o <<e>> \o SubSeq(sorted, n + 1, Len(sorted))

\* main, lines 195-200: announce the file and call the parser
MainStart ==
    /\ pc = "main"
    /\ out' = Append(out, Msg("analyzing"))
    /\ pc' = "open"
    /\ UNCHANGED <<file, lines, i, current_sender, current_timestamp,
                   gamepigeon_flag, results, ret, plot>>

\* a failed open that reports the error and still returns the dictionary
OpenFileReturnsDictionary ==
    /\ pc = "open"
    /\ IF file.status = "ok"
       THEN /\ lines' = file.content
            /\ pc' = "scan"
            /\ UNCHANGED <<out, ret>>
       ELSE /\ out' = Append(out, Msg(IF file.status = "missing"
                                      THEN "error_not_found" ELSE "error_other"))
            /\ ret' = Some(results)
            /\ pc' = "returned"
            /\ UNCHANGED lines
    /\ UNCHANGED <<file, i, current_sender, current_timestamp, gamepigeon_flag,
                   results, plot>>

\* lines 37-39 and 99-104: open and read the file; a failure prints one
\* message and returns None
OpenFile ==
    /\ pc = "open"
    /\ IF file.status = "ok"
       THEN /\ lines' = file.content
            /\ pc' = "scan"
            /\ UNCHANGED <<out, ret>>
       ELSE /\ out' = Append(out, Msg(IF file.status = "missing"
                                      THEN "error_not_found" ELSE "error_other"))
            /\ ret' = None
            /\ pc' = "returned"
            /\ UNCHANGED lines
    /\ UNCHANGED <<file, i, current_sender, current_timestamp, gamepigeon_flag,
                   results, plot>>

\* lines 40-97: one iteration of the loop
ScanLine ==
    /\ pc = "scan"
    /\ i < Len(lines)
    /\ LET line_id == lines[i + 1]
           line    == StrippedLine[line_id]
           next    == IF i + 1 < Len(lines) THEN Some(lines[i + 2]) ELSE None
           st      == TimestampBlock([sender    |-> current_sender,
                                      timestamp |-> current_timestamp,
                                      flag      |-> gamepigeon_flag],
                                     line_id, next)
           outcome == Outcome(line, st.sender)
       IN  /\ current_sender' = st.sender
           /\ current_timestamp' = st.timestamp
           /\ IF line = GamePigeonMarker
              THEN /\ gamepigeon_flag' = TRUE
                   /\ UNCHANGED results
              ELSE IF AwaitingResult(st.flag, i) /\ ~IsNone(outcome)
              THEN /\ results' = Record(results, Get(outcome), st.timestamp)
                   /\ gamepigeon_flag' = FALSE
              ELSE /\ gamepigeon_flag' = st.flag
                   /\ UNCHANGED results
    /\ i' = i + 1
    /\ UNCHANGED <<pc, file, lines, ret, out, plot>>

\* lines 106-109: the loop is over; sort and return the dictionary
SortAndReturn ==
    /\ pc = "scan"
    /\ i = Len(lines)
    /\ results' = [results EXCEPT
                      !.timestamped_results = SortByTimestamp(@)]
    /\ ret' = Some(results')
    /\ pc' = "returned"
    /\ UNCHANGED <<file, lines, i, current_sender, current_timestamp,
                   gamepigeon_flag, out, plot>>

\* ------------------------------------------------------------------------
\* main, after the parser returned
\* ------------------------------------------------------------------------

\* line 203
TotalGames(res) == res.wins + res.losses + res.draws

\* lines 204, 212, 213: a percentage as the fraction <<numerator, denominator>>
Percentage(count, total) == IF total > 0 THEN <<count * 100, total>> ELSE <<0, 1>>

\* lines 202-218: report the summary of a result that is not None and call
\* the plot when games were counted
MainReport ==
    /\ pc = "returned"
    /\ IF ~IsNone(ret)
       THEN LET res   == Get(ret)
                total == TotalGames(res)
                summary ==
                    [msg  |-> "summary",
                     data |-> <<total, res.wins, res.losses, res.draws,
                                Percentage(res.wins, total),
                                Percentage(res.losses, total),
                                Percentage(res.draws, total)>>]
            IN  IF total > 0
                THEN /\ out' = out \o <<summary, Msg("generating_plot")>>
                     /\ pc' = "plot"
                ELSE /\ out' = Append(out, summary)
                     /\ pc' = "done"
       ELSE /\ pc' = "done"
            /\ UNCHANGED out
    /\ UNCHANGED <<file, lines, i, current_sender, current_timestamp,
                   gamepigeon_flag, results, ret, plot>>

\* ------------------------------------------------------------------------
\* plot_results_over_time
\* ------------------------------------------------------------------------

\* line 165: the sliding window is at most this many games
WindowGames == 5

Min(a, b) == IF a < b THEN a ELSE b

\* list.count over a slice: occurrences of kind in s[a..b]
CountKind(s, kind, a, b) == Cardinality({k \in a..b : s[k] = kind})

\* lines 126-144: running count of one kind of outcome
Cumulative(result_types, kind) ==
    [k \in 1..Len(result_types) |-> CountKind(result_types, kind, 1, k)]

\* line 165
WindowSize(n) == Min(WindowGames, n)

\* lines 169-175: the number of windows; zero when the else branch is taken
WindowCount(n) == IF n >= WindowSize(n) THEN n - WindowSize(n) + 1 ELSE 0

\* lines 111-192
PlotResults ==
    /\ pc = "plot"
    /\ LET timestamped  == Get(ret).timestamped_results
           timestamps   == [k \in 1..Len(timestamped) |-> timestamped[k][1]]
           result_types == [k \in 1..Len(timestamped) |-> timestamped[k][2]]
           n            == Len(result_types)
           window_size  == WindowSize(n)
           windows      == WindowCount(n)
       IN  IF n = 0
           THEN /\ out' = Append(out, Msg("no_timestamped_results"))
                /\ plot' = [plot EXCEPT !.called = TRUE]
           ELSE /\ plot' =
                     [called      |-> TRUE,
                      cum_wins    |-> Cumulative(result_types, "win"),
                      cum_losses  |-> Cumulative(result_types, "loss"),
                      cum_draws   |-> Cumulative(result_types, "draw"),
                      window_size |-> window_size,
                      win_percentages |->
                          [k \in 1..windows |->
                              <<CountKind(result_types, "win", k, k + window_size - 1) * 100,
                                window_size>>],
                      dates       |-> [k \in 1..windows |-> timestamps[k + window_size - 1]],
                      placeholder |-> ~(n >= window_size),
                      saved       |-> TRUE]
                /\ out' = Append(out, Msg("plot_saved"))
    /\ pc' = "done"
    /\ UNCHANGED <<file, lines, i, current_sender, current_timestamp,
                   gamepigeon_flag, results, ret>>

\* ------------------------------------------------------------------------
\* Specifications
\* ------------------------------------------------------------------------

Next ==
    \/ MainStart
    \/ OpenFile
    \/ ScanLine
    \/ SortAndReturn
    \/ MainReport
    \/ PlotResults

Spec == Init /\ [][Next]_vars

\* plot_results_over_time as a function of its argument: sorted sequences of
\* timestamped outcomes
PlotTimestamps == {<<2024, 1, 2, 0, 5, 0>>, <<2024, 1, 2, 1, 5, 0>>}

PlotInputs ==
    {s \in SeqsOver(PlotTimestamps \X {"win", "loss", "draw"}, MaxOutcomes) :
        \A k \in 1..(Len(s) - 1) : ~LexLess(s[k + 1][1], s[k][1])}

InitPlot ==
    /\ pc = "plot"
    /\ file = [status |-> "ok", content |-> <<>>]
    /\ lines = <<>>
    /\ i = 0
    /\ current_sender = None
    /\ current_timestamp = None
    /\ gamepigeon_flag = FALSE
    /\ \E s \in PlotInputs :
          results = [wins   |-> CountKind([k \in 1..Len(s) |-> s[k][2]], "win", 1, Len(s)),
                     losses |-> CountKind([k \in 1..Len(s) |-> s[k][2]], "loss", 1, Len(s)),
                     draws  |-> CountKind([k \in 1..Len(s) |-> s[k][2]], "draw", 1, Len(s)),
                     timestamped_results |-> s]
    /\ ret = Some(results)
    /\ out = <<>>
    /\ plot = NoPlot

NextPlot == PlotResults

SpecPlot == InitPlot /\ [][NextPlot]_vars

\* ------------------------------------------------------------------------
\* Vocabulary of the properties, read off the transcript alone
\* ------------------------------------------------------------------------

\* the trimmed k-th line of the transcript (from 1)
LineAt(k) == StrippedLine[lines[k]]

IsGamePigeonLine(k) == LineAt(k) = GamePigeonMarker

IsResultMarker(k) == LineAt(k) \in {IWonMarker, YouWonMarker, DrawMarker}

\* the k-th line matches the timestamp pattern
IsTimestampLine(k) == ~IsNone(MatchOf[lines[k]])

\* the loop is about to process line i + 1
Scanning == pc = "scan" /\ i < Len(lines)

\* the line being processed is a result marker met while the flag is set
MarkerMatched == Scanning /\ IsResultMarker(i + 1) /\ gamepigeon_flag

Max(S) == CHOOSE x \in S : \A y \in S : y <= x

KindCount(seq, kind) == Cardinality({k \in 1..Len(seq) : seq[k][2] = kind})

Parsed == pc \in {"returned", "plot", "done"} /\ file.status = "ok"

\* C1: every result marker matched while the flag is set adds one to exactly
\* one of wins, losses and draws, whether or not a timestamp is present; no
\* other line changes a counter; the total main reports is their sum.
C1_StepCounts ==
    Scanning =>
        LET delta == <<results'.wins - results.wins,
                       results'.losses - results.losses,
                       results'.draws - results.draws>>
        IN  IF MarkerMatched
            THEN delta \in {<<1, 0, 0>>, <<0, 1, 0>>, <<0, 0, 1>>}
            ELSE delta = <<0, 0, 0>>

C1_ReportedTotal ==
    \A k \in 1..Len(out) :
        out[k].msg = "summary" =>
            /\ out[k].data[1] = results.wins + results.losses + results.draws
            /\ <<out[k].data[2], out[k].data[3], out[k].data[4]>>
                   = <<results.wins, results.losses, results.draws>>

C1_TotalIsMatchedMarkers == [][C1_StepCounts]_vars /\ []C1_ReportedTotal

\* two markers were counted, one of them without a timestamp
C1_Witness ==
    /\ pc = "done"
    /\ TotalGames(results) = 2
    /\ Len(results.timestamped_results) = 1

\* C2: the outcome recorded for a matched marker follows the inversion law,
\* with the sender being the trimmed line after the most recent timestamp
\* line (no sender when there is none): "Me" with "I won!" is a win, "Me" with
\* "You Won!" a loss, anyone else the reverse, and "Draw!" is a draw.
C2_BlockSender ==
    LET seen == {t \in 1..i : IsTimestampLine(t)}
    IN  IF seen = {} THEN None ELSE Some(LineAt(Max(seen) + 1))

C2_LawOutcome ==
    LET line == LineAt(i + 1)
        me   == C2_BlockSender = Some(MeSender)
    IN  IF line = DrawMarker THEN "draw"
        ELSE IF line = IWonMarker THEN (IF me THEN "win" ELSE "loss")
        ELSE (IF me THEN "loss" ELSE "win")

C2_Step ==
    MarkerMatched =>
        /\ results'.wins = results.wins + (IF C2_LawOutcome = "win" THEN 1 ELSE 0)
        /\ results'.losses = results.losses + (IF C2_LawOutcome = "loss" THEN 1 ELSE 0)
        /\ results'.draws = results.draws + (IF C2_LawOutcome = "draw" THEN 1 ELSE 0)
        /\ LET before == results.timestamped_results
               after  == results'.timestamped_results
           IN  Len(after) > Len(before) => after[Len(after)][2] = C2_LawOutcome

C2_InversionLaw == [][C2_Step]_vars

\* "You Won!" sent by somebody other than "Me" has just been counted a win
C2_Witness ==
    /\ pc = "scan"
    /\ i >= 4
    /\ LineAt(i) = YouWonMarker
    /\ ~IsNone(current_sender)
    /\ current_sender # Some(MeSender)
    /\ current_sender # Some(GamePigeonMarker)
    /\ results.wins = 1
    /\ Len(results.timestamped_results) = 1

\* C3: the timestamped sequence the parser returns is non-decreasing by
\* timestamp, also for transcripts whose timestamps are out of order.
C3_IsSorted(seq) == \A k \in 1..(Len(seq) - 1) : ~LexLess(seq[k + 1][1], seq[k][1])

C3_ReturnedSorted == (Parsed /\ ~IsNone(ret)) => C3_IsSorted(Get(ret).timestamped_results)

\* the transcript lists a later timestamp before an earlier one and both
\* carry an outcome
C3_Witness ==
    /\ pc = "returned"
    /\ ~IsNone(ret)
    /\ Len(Get(ret).timestamped_results) = 2
    /\ LexLess(Get(ret).timestamped_results[1][1], Get(ret).timestamped_results[2][1])
    /\ \E a, b \in 1..Len(lines) :
          /\ a < b
          /\ ~IsNone(ParsedOf[lines[a]])
          /\ ~IsNone(ParsedOf[lines[b]])
          /\ Get(ParsedOf[lines[a]]) = Get(ret).timestamped_results[2][1]
          /\ Get(ParsedOf[lines[b]]) = Get(ret).timestamped_results[1][1]

\* C4: a marker matched while the current timestamp is absent is counted but
\* not appended; a marker matched while it is present is counted and appended
\* with that timestamp; nothing else changes the sequence, and no kind has
\* more entries in the sequence than its counter says.
C4_Step ==
    Scanning =>
        LET before == results.timestamped_results
            after  == results'.timestamped_results
        IN  IF MarkerMatched /\ ~IsNone(current_timestamp)
            THEN /\ Len(after) = Len(before) + 1
                 /\ SubSeq(after, 1, Len(before)) = before
                 /\ after[Len(after)][1] = Get(current_timestamp)
                 /\ TotalGames(results') = TotalGames(results) + 1
            ELSE IF MarkerMatched
            THEN /\ after = before
                 /\ TotalGames(results') = TotalGames(results) + 1
            ELSE after = before

C4_KindsBounded ==
    /\ KindCount(results.timestamped_results, "win") <= results.wins
    /\ KindCount(results.timestamped_results, "loss") <= results.losses
    /\ KindCount(results.timestamped_results, "draw") <= results.draws

C4_AbsentTimestampCounted == [][C4_Step]_vars /\ []C4_KindsBounded

\* a marker was counted under a timestamp line that failed both formats
C4_Witness ==
    /\ pc = "scan"
    /\ i >= 3
    /\ IsResultMarker(i)
    /\ TotalGames(results) = 1
    /\ results.timestamped_results = <<>>
    /\ \E t \in 1..i : IsTimestampLine(t) /\ IsNone(ParsedOf[lines[t]])

\* C5: with one to four timestamped outcomes the plot has no windowed
\* win-percentage point and shows the placeholder text instead.
C5_PlaceholderBelowWindow ==
    (plot.called /\ Len(Get(ret).timestamped_results) \in 1..(WindowGames - 1)) =>
        /\ plot.win_percentages = <<>>
        /\ plot.placeholder

\* C6: a file that cannot be opened or read gives None after exactly one
\* error message; main then prints no summary and does not plot, and no count
\* is ever changed or reported.
C6_ErrorMessages(seq) ==
    {k \in 1..Len(seq) : seq[k].msg \in {"error_not_found", "error_other"}}

C6_FailedReadReportsNothing ==
    file.status # "ok" =>
        /\ IsNone(ret)
        /\ results = EmptyResults
        /\ pc # "plot"
        /\ ~plot.called
        /\ \A k \in 1..Len(out) :
              out[k].msg \in {"analyzing", "error_not_found", "error_other"}
        /\ Cardinality(C6_ErrorMessages(out)) = (IF pc \in {"returned", "done"} THEN 1 ELSE 0)

\* main is over for a missing file: the announcement and one error message
C6_Witness ==
    /\ pc = "done"
    /\ file.status = "missing"
    /\ out = <<Msg("analyzing"), Msg("error_not_found")>>
    /\ IsNone(ret)

\* C7: a transcript with no "GamePigeon message:" line gives the all-zero
\* summary with an empty sequence, as a normal result, whatever result
\* markers it contains.
C7_NoGamePigeonLine == \A k \in 1..Len(file.content) : StrippedLine[file.content[k]] # GamePigeonMarker

C7_NoMarkerNoGames ==
    (Parsed /\ C7_NoGamePigeonLine) =>
        /\ ret = Some(EmptyResults)
        /\ C6_ErrorMessages(out) = {}
        /\ pc # "plot"

\* a transcript of a timestamp, a sender and result markers only
C7_Witness ==
    /\ pc = "done"
    /\ file.status = "ok"
    /\ C7_NoGamePigeonLine
    /\ Len(lines) >= 3
    /\ IsTimestampLine(1)
    /\ \E k \in 3..Len(lines) : IsResultMarker(k)
    /\ ret = Some(EmptyResults)

\* C8: a result-marker line is counted exactly when a "GamePigeon message:"
\* line precedes it and neither a timestamp line nor a counted result marker
\* lies between the latest such line and it; other lines in between do not
\* matter.  Hence the games counted never exceed the "GamePigeon message:"
\* lines read.
RECURSIVE C8_Counted(_)
C8_Counted(k) ==
    /\ IsResultMarker(k)
    /\ \E g \in 1..(k - 1) :
          /\ IsGamePigeonLine(g)
          /\ \A m \in (g + 1)..(k - 1) :
                /\ ~IsGamePigeonLine(m)
                /\ ~IsTimestampLine(m)
                /\ ~C8_Counted(m)

C8_Step ==
    Scanning =>
        (TotalGames(results') = TotalGames(results) + 1 <=> C8_Counted(i + 1))

C8_AtMostOnePerBlock ==
    pc = "scan" =>
        TotalGames(results) <= Cardinality({g \in 1..i : IsGamePigeonLine(g)})

C8_CountedIffPending == [][C8_Step]_vars /\ []C8_AtMostOnePerBlock

\* a marker was counted two lines after its "GamePigeon message:" line, and
\* a second marker right after it was not
C8_Witness ==
    /\ pc = "scan"
    /\ i >= 4
    /\ IsGamePigeonLine(i - 3)
    /\ ~IsGamePigeonLine(i - 2) /\ ~IsResultMarker(i - 2) /\ ~IsTimestampLine(i - 2)
    /\ IsResultMarker(i - 1)
    /\ IsResultMarker(i)
    /\ TotalGames(results) = 1

\* C9 as stated: a timestamp line that is the last line still sets the
\* timestamp and resets the flag, and only leaves the sender alone.
C9_LastLineStillUpdates ==
    [][(Scanning /\ i + 1 = Len(lines) /\ IsTimestampLine(i + 1)) =>
          /\ current_timestamp' = ParsedOf[lines[i + 1]]
          /\ gamepigeon_flag' = FALSE
          /\ current_sender' = current_sender]_vars

\* C9 as amended: a timestamp line that is the last line changes none of the
\* sender, the timestamp, the flag and the counts.
C9_LastLineSkipsBlock ==
    [][(Scanning /\ i + 1 = Len(lines) /\ IsTimestampLine(i + 1)) =>
          UNCHANGED <<current_sender, current_timestamp, gamepigeon_flag, results>>]_vars

\* the transcript ended in a parseable timestamp line right after a
\* "GamePigeon message:" line: the flag is still set, the timestamp still
\* absent
C9_Witness ==
    /\ pc = "scan"
    /\ i = Len(lines)
    /\ i >= 2
    /\ IsGamePigeonLine(i - 1)
    /\ IsTimestampLine(i)
    /\ ~IsNone(ParsedOf[lines[i]])
    /\ gamepigeon_flag
    /\ IsNone(current_timestamp)

\* the timestamp grammar: s fits it from its first character with d day
\* digits, w separators and h hour digits; literal says whether the name is a
\* month or weekday abbreviation and the separators are spaces, or whether
\* any three word characters and any whitespace do
C10_Fits(s, d, w, h, literal) ==
    LET t      == 11 + d + w
        sep(c) == IF literal THEN c = " " ELSE IsSpace(c)
    IN  /\ 19 + d + w + h <= Len(s)
        /\ IF literal
           THEN LowerStr(SubSeq(s, 1, 3)) \in Range(MonthNames) \cup Range(WeekdayNames)
           ELSE \A k \in 1..3 : IsWord(s[k])
        /\ sep(s[4])
        /\ \A k \in 5..(4 + d) : IsDigit(s[k])
        /\ s[5 + d] = ","
        /\ sep(s[6 + d])
        /\ \A k \in (7 + d)..(10 + d) : IsDigit(s[k])
        /\ \A k \in (11 + d)..(10 + d + w) : sep(s[k])
        /\ \A k \in t..(t + h - 1) : IsDigit(s[k])
        /\ s[t + h] = ":"
        /\ IsDigit(s[t + h + 1]) /\ IsDigit(s[t + h + 2])
        /\ s[t + h + 3] = ":"
        /\ IsDigit(s[t + h + 4]) /\ IsDigit(s[t + h + 5])
        /\ sep(s[t + h + 6])
        /\ s[t + h + 7] \in {"A", "P"}
        /\ s[t + h + 8] = "M"

\* the whole line fits the grammar with one or two separating spaces
C10_WholeLineFits(s) ==
    \E d \in {1, 2}, w \in {1, 2}, h \in {1, 2} :
        C10_Fits(s, d, w, h, TRUE) /\ Len(s) = 19 + d + w + h

\* a prefix of the line fits the pattern with any number of separators
C10_PrefixFits(s) ==
    \E d \in {1, 2}, w \in 1..Len(s), h \in {1, 2} : C10_Fits(s, d, w, h, FALSE)

\* three or more separating spaces, or text after AM/PM
C10_WideOrTrailing(s) ==
    \E d \in {1, 2}, w \in 1..Len(s), h \in {1, 2} :
        C10_Fits(s, d, w, h, FALSE) /\ (w >= 3 \/ Len(s) > 19 + d + w + h)

\* the three predicates on the trimmed text of each pool line
C10_WholeLineFitsOf == [k \in 1..Len(Pool) |-> C10_WholeLineFits(StrippedLine[k])]

C10_PrefixFitsOf == [k \in 1..Len(Pool) |-> C10_PrefixFits(StrippedLine[k])]

C10_WideOrTrailingOf == [k \in 1..Len(Pool) |-> C10_WideOrTrailing(StrippedLine[k])]

\* the scan step leaves sender and timestamp alone and does not reset the flag
C10_NotTreated ==
    /\ UNCHANGED <<current_sender, current_timestamp>>
    /\ (gamepigeon_flag /\ ~IsResultMarker(i + 1)) => gamepigeon_flag'

\* the scan step takes the sender from the next line, sets the timestamp and
\* resets the flag
C10_Treated ==
    /\ current_sender' = Some(LineAt(i + 2))
    /\ current_timestamp' = ParsedOf[lines[i + 1]]
    /\ gamepigeon_flag' = FALSE

\* C10 as stated: a line is treated as a timestamp line only if the whole
\* line fits the grammar with one or two separating spaces.
C10_OnlyOneOrTwoSpaces ==
    [][(Scanning /\ ~C10_WholeLineFitsOf[lines[i + 1]]) => C10_NotTreated]_vars

\* C10 as amended: a line is treated as a timestamp line only if a prefix of
\* it fits the pattern with one or more separating whitespace characters; a
\* line with three or more separating spaces or with text after AM/PM is
\* treated as a timestamp line whenever another line follows it.
C10_PrefixWithAnySeparator ==
    [][Scanning =>
          /\ ~C10_PrefixFitsOf[lines[i + 1]] => C10_NotTreated
          /\ (C10_WideOrTrailingOf[lines[i + 1]] /\ i + 1 < Len(lines)) => C10_Treated]_vars

\* a line with three separating spaces, met while a result was awaited, has
\* set sender and timestamp and reset the flag
C10_Witness ==
    /\ pc = "scan"
    /\ i >= 2
    /\ i < Len(lines)
    /\ IsGamePigeonLine(i - 1)
    /\ \E d \in {1, 2}, h \in {1, 2} : C10_Fits(LineAt(i), d, 3, h, TRUE)
    /\ current_sender = Some(LineAt(i + 1))
    /\ ~IsNone(current_timestamp)
    /\ ~gamepigeon_flag

====
